---------------------------- MODULE Spec2Model ----------------------------
(***************************************************************************)
(* ShareMeal backend (src/backend): the route handlers of main.py over the *)
(* three MongoDB collections users, food_items and requests.               *)
(*                                                                         *)
(* Every handler is an async coroutine; each `await db...` and each        *)
(* `await send_notification(...)` is a suspension point at which another   *)
(* in-flight handler may run.  A handler is therefore modelled as a chain  *)
(* of steps, one per awaited call, executed by one of the Tasks.  The      *)
(* first step of a handler also binds its inputs (the bearer token's       *)
(* subject, the path parameters and the body).                             *)
(*                                                                         *)
(* Spec serves one request at a time (every handler runs to its response   *)
(* before the next begins) over the full input domains.  SpecRace serves   *)
(* two requests concurrently, interleaved at every suspension point.       *)
(* SpecAccount, SpecFood and SpecDelete are one-request-at-a-time slices   *)
(* with wider inputs (passwords and the clock, listing fields, store calls *)
(* that raise); SpecToken exercises auth.py's token functions and SpecDb   *)
(* database.py's connection state from the freshly imported module.        *)
(*                                                                         *)
(* Documents are records; a collection is the set of its documents.        *)
(* ObjectIds are naturals handed out in increasing order and never reused; *)
(* their string form (str(ObjectId)) is the pair <<"oid", n>>.             *)
(* Display names, pictures and request notes are opaque payload that no    *)
(* handler branches on and are left out of the documents.                  *)
(***************************************************************************)
EXTENDS Integers, FiniteSets, Sequences, TLC

\* ------------------------------------------------------------------ bounds
MaxUsers == 2       \* user documents ever inserted
MaxFood == 2        \* food items ever inserted
MaxReq == 2         \* requests ever inserted
MaxTime == 1        \* last instant of the wall clock
MaxClients == 2     \* AsyncIOMotorClient objects ever made

Tasks == {"t1", "t2"}            \* concurrently served HTTP requests
Emails == {"a@x", "b@x"}                \* register / login emails
Passwords == {"pw1", "pw2"}      \* plaintext passwords
Titles == {"soup"}               \* food item titles
Quantities == {"1kg"}            \* food item quantities
FcmTokens == {"dev"}             \* device tokens

\* --------------------------------------------------------------- identifiers
\* str(ObjectId): rendering a native identifier as the API's string id
Str(n) == <<"oid", n>>

\* a path parameter that is no ObjectId representation
BadId == <<"zz", 0>>

\* every string taken for an ObjectId
IsObjectId_any(s) == TRUE

\* bson.ObjectId(s) accepts exactly the strings str() produces
IsObjectId(s) == s[1] = "oid"

\* ObjectId(s): the native identifier of a valid string
ObjectId(s) == s[2]

\* ----------------------------------------------------------------- passwords
\* auth._prehash_password: base64(sha256(password))
PrehashPassword(p) == <<"sha256", p>>

\* auth.get_password_hash: bcrypt over the pre-hash (the salt is not modelled)
GetPasswordHash(p) == <<"bcrypt", PrehashPassword(p)>>

\* auth.verify_password
VerifyPassword(p, h) == h = <<"bcrypt", PrehashPassword(p)>>

\* -------------------------------------------------------------------- state
VARIABLES
    users,        \* db.users: set of user documents
    food_items,   \* db.food_items: set of food item documents
    requests,     \* db.requests: set of request documents
    nextUid,      \* next ObjectId of db.users
    nextFid,      \* next ObjectId of db.food_items
    nextRid,      \* next ObjectId of db.requests
    now,          \* datetime.now(timezone.utc)
    tokens,       \* subjects of the access tokens handed to clients
    mongo,        \* database.py: client, database and the clients made so far
    frame         \* per task: the handler it runs, its position and locals

vars == <<users, food_items, requests, nextUid, nextFid, nextRid, now,
          tokens, mongo, frame>>

db == <<users, food_items, requests>>

None == [nil |-> TRUE]
Idle == [pc |-> "idle"]

\* Python's None for an optional field
NoValue == "none"

\* ------------------------------------------------------------ collection ops
\* collection.find_one({"_id": oid}): the document or None
FindById(coll, oid) ==
    IF \E d \in coll : d.id = oid
    THEN CHOOSE d \in coll : d.id = oid
    ELSE None

\* a lookup that matches no record
UsersByEmail_nothing(email) == {}

\* db.users.find({"email": email}): every matching user
UsersByEmail(email) == {u \in users : u.email = email}

\* db.requests.find({"$or": [{"donor_uid": uid}, {"requester_uid": uid}]})
GetRequestsQuery(uid) ==
    {r \in requests : r.donor_uid = uid \/ r.requester_uid = uid}

\* ------------------------------------------------------------- task plumbing
\* a response is delivered before any other task steps: delivery touches no
\* collection and no other task reads it
NoResponsePending == \A t \in Tasks : frame[t].pc # "done"

\* the tasks are interchangeable: a request is taken by "t1" when it is free
Free(t) == frame[t] = Idle => (t = "t1" \/ frame["t1"] # Idle)

\* the handler of task t moves to frame f
Goto(t, f) ==
    /\ NoResponsePending
    /\ Free(t)
    /\ frame' = [frame EXCEPT ![t] = f]

\* the handler ends with an HTTP response
Respond(op, code, extra) == [pc |-> "done", op |-> op, code |-> code] @@ extra

\* the handler ends with an HTTPException or an unhandled exception; the
\* response carries the status code and a detail string only
Fail(op, code) == [pc |-> "done", op |-> op, code |-> code]

\* ------------------------------------------------------------- database.py
\* database.py 14-15: client = None, database = None; an option is <<>> for
\* None and <<n>> for the n-th AsyncIOMotorClient or its sharemeal database
Imported == [client |-> <<>>, database |-> <<>>, created |-> 0, closed |-> {}]

\* a client made at every call
connect_to_mongo_always(m) ==
    [m EXCEPT !.client = <<m.created + 1>>,
              !.database = <<m.created + 1>>,
              !.created = m.created + 1]

\* database.py 18-24
connect_to_mongo(m) ==
    IF m.client = <<>>
    THEN [m EXCEPT !.client = <<m.created + 1>>,
                   !.database = <<m.created + 1>>,
                   !.created = m.created + 1]
    ELSE m

\* database.py 27-32: client.close(); neither global is assigned
close_mongo_connection(m) ==
    IF m.client # <<>>
    THEN [m EXCEPT !.closed = m.closed \cup {m.client[1]}]
    ELSE m

\* database.py 35-39: the module state after get_db; it returns .database
GetDb(m) == IF m.database = <<>> THEN connect_to_mongo(m) ELSE m

\* the empty collections, the clock at its start and no request in flight
InitStore ==
    /\ users = {}
    /\ food_items = {}
    /\ requests = {}
    /\ nextUid = 1
    /\ nextFid = 1
    /\ nextRid = 1
    /\ now = 0
    /\ tokens = {}
    /\ frame = [t \in Tasks |-> Idle]

\* the application started: app_config.py 23-27 has connected, so the get_db
\* dependency of every handler finds the database set and changes nothing
Init ==
    /\ InitStore
    /\ mongo = connect_to_mongo(Imported)

\* the modules imported, startup not yet run
InitDb ==
    /\ InitStore
    /\ mongo = Imported

\* app_config.py 23-27
startup_event(t) ==
    /\ frame[t] = Idle
    /\ connect_to_mongo(mongo).created <= MaxClients
    /\ mongo' = connect_to_mongo(mongo)
    /\ Goto(t, Respond("startup_event", 200, [created |-> mongo'.created]))
    /\ UNCHANGED <<users, food_items, requests, nextUid, nextFid, nextRid,
                   now, tokens>>

\* app_config.py 29-33
shutdown_event(t) ==
    /\ frame[t] = Idle
    /\ mongo' = close_mongo_connection(mongo)
    /\ Goto(t, Respond("shutdown_event", 200, [was_open |-> mongo.client # <<>>]))
    /\ UNCHANGED <<users, food_items, requests, nextUid, nextFid, nextRid,
                   now, tokens>>

\* database.py 35-39: the dependency of every handler, resolved
get_db(t) ==
    /\ frame[t] = Idle
    /\ GetDb(mongo).created <= MaxClients
    /\ mongo' = GetDb(mongo)
    /\ Goto(t, Respond("get_db", 200,
                [database |-> mongo'.database, lazy |-> mongo.database = <<>>]))
    /\ UNCHANGED <<users, food_items, requests, nextUid, nextFid, nextRid,
                   now, tokens>>

\* a handler runs with its get_db dependency already satisfied
Serving == mongo.database # <<>>

\* the wall clock advances
Tick ==
    /\ now < MaxTime
    /\ now' = now + 1
    /\ UNCHANGED <<mongo, users, food_items, requests, nextUid, nextFid, nextRid,
                   tokens, frame>>

\* the response of task t is delivered; a token in it reaches the client
Return(t) ==
    /\ frame[t].pc = "done"
    /\ frame' = [frame EXCEPT ![t] = Idle]
    /\ tokens' = IF frame[t].op \in {"register", "login"} /\ frame[t].code \in {200, 201}
                 THEN tokens \cup {frame[t].access_token}
                 ELSE tokens
    /\ UNCHANGED <<mongo, users, food_items, requests, nextUid, nextFid, nextRid, now>>

\* ---------------------------------------------------------------- register
\* the existence check left out: every registration inserts
register_find_unchecked(t, email, password) ==
    /\ frame[t] = Idle
    /\ nextUid <= MaxUsers
    /\ Goto(t, [pc |-> "register_insert", op |-> "register",
                email |-> email, checked |-> nextUid,
                hashed_password |-> GetPasswordHash(password)])
    /\ UNCHANGED <<mongo, users, food_items, requests, nextUid, nextFid, nextRid,
                   now, tokens>>

\* main.py 116-121: existence check by email, then hash the password.
\* `checked` records the users ObjectId counter at the check; the handler
\* never reads it.
register_find(t, email, password) ==
    /\ frame[t] = Idle
    /\ IF UsersByEmail(email) # {}
       THEN Goto(t, Fail("register", 400))
       ELSE /\ nextUid <= MaxUsers
            /\ Goto(t, [pc |-> "register_insert", op |-> "register",
                        email |-> email, checked |-> nextUid,
                        hashed_password |-> GetPasswordHash(password)])
    /\ UNCHANGED <<mongo, users, food_items, requests, nextUid, nextFid, nextRid,
                   now, tokens>>

\* main.py 124-138: insert the user document, create the access token
register_insert(t) ==
    /\ frame[t].pc = "register_insert"
    /\ nextUid <= MaxUsers
    /\ users' = users \cup {[id |-> nextUid,
                             email |-> frame[t].email,
                             hashed_password |-> frame[t].hashed_password,
                             fcm_token |-> NoValue,
                             created_at |-> now,
                             updated_at |-> now]}
    /\ nextUid' = nextUid + 1
    /\ Goto(t, [pc |-> "register_fetch", op |-> "register",
                email |-> frame[t].email,
                inserted_id |-> nextUid,
                access_token |-> Str(nextUid)])
    /\ UNCHANGED <<mongo, food_items, requests, nextFid, nextRid, now, tokens>>

\* main.py 141-164: read the created user back and answer; AuthResponse
\* rejects user=None (the record was deleted meanwhile), which is a 500
register_fetch(t) ==
    /\ frame[t].pc = "register_fetch"
    /\ LET user == FindById(users, frame[t].inserted_id) IN
       IF user = None
       THEN Goto(t, Fail("register", 500))
       ELSE Goto(t, Respond("register", 201,
                [email |-> frame[t].email,
                 access_token |-> frame[t].access_token,
                 user |-> [id |-> Str(user.id), uid |-> Str(user.id),
                           email |-> user.email]]))
    /\ UNCHANGED <<mongo, users, food_items, requests, nextUid, nextFid, nextRid,
                   now, tokens>>

register(t, emails, passwords) ==
    \/ \E email \in emails, password \in passwords :
          register_find(t, email, password)
    \/ register_insert(t)
    \/ register_fetch(t)

\* ---------------------------------------------------------------- login
\* main.py 188-200: look the user up by email, verify the password
login_find(t, email, password) ==
    /\ frame[t] = Idle
    /\ \/ /\ UsersByEmail(email) = {}
          /\ Goto(t, Fail("login", 401))
       \/ \E user \in UsersByEmail(email) :
            IF ~VerifyPassword(password, user.hashed_password)
            THEN Goto(t, Fail("login", 401))
            ELSE Goto(t, [pc |-> "login_touch", op |-> "login",
                          email |-> email, user_id |-> user.id,
                          access_token |-> Str(user.id)])
    /\ UNCHANGED <<mongo, users, food_items, requests, nextUid, nextFid, nextRid,
                   now, tokens>>

\* main.py 203-225: touch updated_at and answer with the token
login_touch(t) ==
    /\ frame[t].pc = "login_touch"
    /\ users' = {IF u.id = frame[t].user_id
                 THEN [u EXCEPT !.updated_at = now] ELSE u : u \in users}
    /\ Goto(t, Respond("login", 200,
                [email |-> frame[t].email,
                 access_token |-> frame[t].access_token]))
    /\ UNCHANGED <<mongo, food_items, requests, nextUid, nextFid, nextRid, now, tokens>>

login(t, emails, passwords) ==
    \/ \E email \in emails, password \in passwords :
          login_find(t, email, password)
    \/ login_touch(t)

\* ---------------------------------------------------------- create_food_item
\* main.py 334-352: one insert, the current user becomes the donor
create_food_item(t, me, title, quantity) ==
    /\ frame[t] = Idle
    /\ nextFid <= MaxFood
    /\ food_items' = food_items \cup {[id |-> nextFid,
                                       title |-> title,
                                       quantity |-> quantity,
                                       donor_uid |-> me,
                                       created_at |-> now,
                                       updated_at |-> <<>>]}
    /\ nextFid' = nextFid + 1
    /\ Goto(t, Respond("create_food_item", 201, [me |-> me, id |-> Str(nextFid)]))
    /\ UNCHANGED <<mongo, users, requests, nextUid, nextRid, now, tokens>>

\* ---------------------------------------------------------- update_food_item
\* the whole body written, absent fields included
UpdateData_whole_body(patch) == patch

\* the fields of a FoodItemUpdate body that are not None
UpdateData(patch) ==
    [k \in {f \in DOMAIN patch : patch[f] # NoValue} |-> patch[k]]

\* collection.update_one({"_id": oid}, {"$set": set})
UpdateOne(coll, oid, set) ==
    {IF d.id = oid
     THEN [k \in DOMAIN d |-> IF k \in DOMAIN set THEN set[k] ELSE d[k]]
     ELSE d : d \in coll}

\* main.py 377-403: ObjectId(food_id), existence, ownership, patch body
update_food_item_find(t, me, food_id, patch) ==
    /\ frame[t] = Idle
    /\ LET food == FindById(food_items, ObjectId(food_id))
       IN  IF ~IsObjectId(food_id)
           THEN Goto(t, Fail("update_food_item", 500))
           ELSE IF food = None
           THEN Goto(t, Fail("update_food_item", 404))
           ELSE IF food.donor_uid # me
           THEN Goto(t, Fail("update_food_item", 403))
           ELSE IF DOMAIN UpdateData(patch) = {}
           THEN Goto(t, Fail("update_food_item", 400))
           ELSE Goto(t, [pc |-> "update_food_item_update",
                         op |-> "update_food_item", me |-> me,
                         food_id |-> food_id, food_update |-> patch,
                         update_data |-> UpdateData(patch)])
    /\ UNCHANGED <<mongo, users, food_items, requests, nextUid, nextFid, nextRid,
                   now, tokens>>

\* main.py 405-410: $set of the provided fields and updated_at
update_food_item_update(t) ==
    /\ frame[t].pc = "update_food_item_update"
    /\ food_items' = UpdateOne(food_items, ObjectId(frame[t].food_id),
                               frame[t].update_data @@ [updated_at |-> <<now>>])
    /\ Goto(t, [pc |-> "update_food_item_fetch", op |-> "update_food_item",
                me |-> frame[t].me, food_id |-> frame[t].food_id])
    /\ UNCHANGED <<mongo, users, requests, nextUid, nextFid, nextRid, now, tokens>>

\* main.py 412-416: read the item back; None (deleted meanwhile) is a 500
update_food_item_fetch(t) ==
    /\ frame[t].pc = "update_food_item_fetch"
    /\ LET updated_food == FindById(food_items, ObjectId(frame[t].food_id))
           who == [me |-> frame[t].me, food_id |-> frame[t].food_id]
       IN  IF updated_food = None
           THEN Goto(t, Fail("update_food_item", 500))
           ELSE Goto(t, Respond("update_food_item", 200,
                        who @@ [title |-> updated_food.title]))
    /\ UNCHANGED <<mongo, users, food_items, requests, nextUid, nextFid, nextRid,
                   now, tokens>>

update_food_item(t, callers, food_ids, patches) ==
    \/ \E me \in callers, food_id \in food_ids, patch \in patches :
          update_food_item_find(t, me, food_id, patch)
    \/ update_food_item_update(t)
    \/ update_food_item_fetch(t)

\* ---------------------------------------------------------- delete_food_item
\* the ownership check left out: any authenticated user may delete
delete_food_item_find_any_user(t, me, food_id) ==
    /\ frame[t] = Idle
    /\ LET food == FindById(food_items, ObjectId(food_id))
       IN  IF ~IsObjectId(food_id)
           THEN Goto(t, Fail("delete_food_item", 500))
           ELSE IF food = None
           THEN Goto(t, Fail("delete_food_item", 404))
           ELSE Goto(t, [pc |-> "delete_food_item_delete",
                         op |-> "delete_food_item", me |-> me,
                         food_id |-> food_id])
    /\ UNCHANGED <<mongo, users, food_items, requests, nextUid, nextFid, nextRid,
                   now, tokens>>

\* main.py 438-444: ObjectId(food_id), existence, ownership
delete_food_item_find(t, me, food_id) ==
    /\ frame[t] = Idle
    /\ LET food == FindById(food_items, ObjectId(food_id))
       IN  IF ~IsObjectId(food_id)
           THEN Goto(t, Fail("delete_food_item", 500))
           ELSE IF food = None
           THEN Goto(t, Fail("delete_food_item", 404))
           ELSE IF food.donor_uid # me
           THEN Goto(t, Fail("delete_food_item", 403))
           ELSE Goto(t, [pc |-> "delete_food_item_delete",
                         op |-> "delete_food_item", me |-> me,
                         food_id |-> food_id])
    /\ UNCHANGED <<mongo, users, food_items, requests, nextUid, nextFid, nextRid,
                   now, tokens>>

\* main.py 447: delete the food item
delete_food_item_delete(t) ==
    /\ frame[t].pc = "delete_food_item_delete"
    /\ food_items' = {f \in food_items : f.id # ObjectId(frame[t].food_id)}
    /\ Goto(t, [frame[t] EXCEPT !.pc = "delete_food_item_cascade"])
    /\ UNCHANGED <<mongo, users, requests, nextUid, nextFid, nextRid, now, tokens>>

\* the cascade restricted to the statuses the docstring names (pending and
\* accepted): rejected requests survive
delete_food_item_cascade_open_only(t) ==
    /\ frame[t].pc = "delete_food_item_cascade"
    /\ requests' = {r \in requests : r.food_id # frame[t].food_id
                                      \/ r.status = "rejected"}
    /\ Goto(t, Respond("delete_food_item", 200,
                [me |-> frame[t].me, food_id |-> frame[t].food_id,
                 cascaded |-> Cardinality(requests \ requests')]))
    /\ UNCHANGED <<mongo, users, food_items, nextUid, nextFid, nextRid, now, tokens>>

\* main.py 450-452: delete the requests that reference the item; `cascaded`
\* is the deleted_count of the DeleteResult, which the handler discards
delete_food_item_cascade(t) ==
    /\ frame[t].pc = "delete_food_item_cascade"
    /\ requests' = {r \in requests : r.food_id # frame[t].food_id}
    /\ Goto(t, Respond("delete_food_item", 200,
                [me |-> frame[t].me, food_id |-> frame[t].food_id,
                 cascaded |-> Cardinality({r \in requests :
                                            r.food_id = frame[t].food_id})]))
    /\ UNCHANGED <<mongo, users, food_items, nextUid, nextFid, nextRid, now, tokens>>

delete_food_item(t, callers, food_ids) ==
    \/ \E me \in callers, food_id \in food_ids :
          delete_food_item_find(t, me, food_id)
    \/ delete_food_item_delete(t)
    \/ delete_food_item_cascade(t)

\* ------------------------------------------------------------ notifications
\* no notification was delivered by the handler
NoNotification == [sent |-> FALSE]

\* fcm.send_notification returned: the message the device receives
Notification(fcm_token, title, body) ==
    [sent |-> TRUE, token |-> fcm_token, title |-> title, body |-> body]

\* ------------------------------------------------------------ create_request
\* the own-item check left out
create_request_find_own_allowed(t, me, food_id) ==
    /\ frame[t] = Idle
    /\ LET food == FindById(food_items, ObjectId(food_id))
       IN  IF ~IsObjectId(food_id)
           THEN Goto(t, Fail("create_request", 500))
           ELSE IF food = None
           THEN Goto(t, Fail("create_request", 404))
           ELSE /\ nextRid <= MaxReq
                /\ Goto(t, [pc |-> "create_request_insert", op |-> "create_request",
                            me |-> me, food_id |-> food_id,
                            donor_uid |-> food.donor_uid, title |-> food.title])
    /\ UNCHANGED <<mongo, users, food_items, requests, nextUid, nextFid, nextRid,
                   now, tokens>>

\* main.py 479-484: ObjectId(food_id), existence, not the caller's own item
create_request_find(t, me, food_id) ==
    /\ frame[t] = Idle
    /\ LET food == FindById(food_items, ObjectId(food_id))
       IN  IF ~IsObjectId(food_id)
           THEN Goto(t, Fail("create_request", 500))
           ELSE IF food = None
           THEN Goto(t, Fail("create_request", 404))
           ELSE IF food.donor_uid = me
           THEN Goto(t, Fail("create_request", 400))
           ELSE /\ nextRid <= MaxReq
                /\ Goto(t, [pc |-> "create_request_insert", op |-> "create_request",
                            me |-> me, food_id |-> food_id,
                            donor_uid |-> food.donor_uid, title |-> food.title])
    /\ UNCHANGED <<mongo, users, food_items, requests, nextUid, nextFid, nextRid,
                   now, tokens>>

\* the request names its requester as the donor
create_request_insert_requester_as_donor(t) ==
    /\ frame[t].pc = "create_request_insert"
    /\ nextRid <= MaxReq
    /\ requests' = requests \cup {[id |-> nextRid,
                                   food_id |-> frame[t].food_id,
                                   requester_uid |-> frame[t].me,
                                   donor_uid |-> frame[t].me,
                                   status |-> "pending",
                                   created_at |-> now,
                                   updated_at |-> <<>>]}
    /\ nextRid' = nextRid + 1
    /\ Goto(t, [frame[t] EXCEPT !.pc = "create_request_donor"] @@ [id |-> Str(nextRid)])
    /\ UNCHANGED <<mongo, users, food_items, nextUid, nextFid, now, tokens>>

\* main.py 487-500: insert the request document with status pending
create_request_insert(t) ==
    /\ frame[t].pc = "create_request_insert"
    /\ nextRid <= MaxReq
    /\ requests' = requests \cup {[id |-> nextRid,
                                   food_id |-> frame[t].food_id,
                                   requester_uid |-> frame[t].me,
                                   donor_uid |-> frame[t].donor_uid,
                                   status |-> "pending",
                                   created_at |-> now,
                                   updated_at |-> <<>>]}
    /\ nextRid' = nextRid + 1
    /\ Goto(t, [frame[t] EXCEPT !.pc = "create_request_donor"] @@ [id |-> Str(nextRid)])
    /\ UNCHANGED <<mongo, users, food_items, nextUid, nextFid, now, tokens>>

\* main.py 503-504, 511: look the donor up; without a device token answer 201
create_request_donor(t) ==
    /\ frame[t].pc = "create_request_donor"
    /\ LET donor == FindById(users, ObjectId(frame[t].donor_uid)) IN
       IF donor # None /\ donor.fcm_token # NoValue
       THEN Goto(t, [frame[t] EXCEPT !.pc = "create_request_notify"]
                    @@ [fcm_token |-> donor.fcm_token])
       ELSE Goto(t, Respond("create_request", 201,
                    [me |-> frame[t].me, food_id |-> frame[t].food_id,
                     id |-> frame[t].id, notification |-> NoNotification]))
    /\ UNCHANGED <<mongo, users, food_items, requests, nextUid, nextFid, nextRid,
                   now, tokens>>

\* a failed notification undoes the insert before the exception leaves
create_request_notify_rollback(t) ==
    /\ frame[t].pc = "create_request_notify"
    /\ LET who == [me |-> frame[t].me, food_id |-> frame[t].food_id,
                   id |-> frame[t].id]
       IN  \/ /\ Goto(t, Respond("create_request", 201,
                      who @@ [notification |->
                                Notification(frame[t].fcm_token, "New Food Request",
                                             <<"requested your", frame[t].title>>)]))
              /\ requests' = requests
           \/ /\ Goto(t, Respond("create_request", 500,
                      who @@ [notification |-> NoNotification]))
              /\ requests' = {r \in requests : Str(r.id) # frame[t].id}
    /\ UNCHANGED <<mongo, users, food_items, nextUid, nextFid, nextRid, now, tokens>>

\* main.py 505-511: send_notification returns and the handler answers 201,
\* or it raises and the exception leaves the handler (500)
create_request_notify(t) ==
    /\ frame[t].pc = "create_request_notify"
    /\ LET who == [me |-> frame[t].me, food_id |-> frame[t].food_id,
                   id |-> frame[t].id]
       IN  \/ Goto(t, Respond("create_request", 201,
                      who @@ [notification |->
                                Notification(frame[t].fcm_token, "New Food Request",
                                             <<"requested your", frame[t].title>>)]))
           \/ Goto(t, Respond("create_request", 500,
                      who @@ [notification |-> NoNotification]))
    /\ UNCHANGED <<mongo, users, food_items, requests, nextUid, nextFid, nextRid,
                   now, tokens>>

create_request(t, callers, food_ids) ==
    \/ \E me \in callers, food_id \in food_ids : create_request_find(t, me, food_id)
    \/ create_request_insert(t)
    \/ create_request_donor(t)
    \/ create_request_notify(t)

\* -------------------------------------------------------------- get_requests
\* RequestResponse(**req): the fields of the response model
RequestResponse(req) ==
    [id |-> Str(req.id), food_id |-> req.food_id,
     requester_uid |-> req.requester_uid, donor_uid |-> req.donor_uid,
     status |-> req.status, created_at |-> req.created_at]

\* main.py 534-546: the requests where the caller is donor or requester
get_requests(t, me) ==
    /\ frame[t] = Idle
    /\ Goto(t, Respond("get_requests", 200,
                [me |-> me,
                 result |-> {RequestResponse(r) : r \in GetRequestsQuery(me)}]))
    /\ UNCHANGED <<mongo, users, food_items, requests, nextUid, nextFid, nextRid,
                   now, tokens>>

\* ------------------------------------------------------------ update_request
\* main.py 577: the status values the handler accepts
ValidStatus == {"accepted", "rejected", "pending"}

\* main.py 593: the status word of the notification
StatusMsg(status) == IF status = "accepted" THEN "accepted" ELSE "rejected"

\* main.py 600-602: RequestResponse(**updated_request), or the TypeError on
\* None that leaves the handler as a 500
UpdateRequestAnswer(f, notification) ==
    IF f.updated_request = None
    THEN Respond("update_request", 500,
                 [me |-> f.me, request_id |-> f.request_id, status |-> f.status,
                  notification |-> notification])
    ELSE Respond("update_request", 200,
                 [me |-> f.me, request_id |-> f.request_id, status |-> f.status,
                  request_status |-> f.request_status,
                  notification |-> notification, body |-> f.updated_request])

\* the status check left out: the donor may store any string
update_request_find_any_status(t, me, request_id, status) ==
    /\ frame[t] = Idle
    /\ LET request == FindById(requests, ObjectId(request_id))
       IN  IF ~IsObjectId(request_id)
           THEN Goto(t, Fail("update_request", 500))
           ELSE IF request = None
           THEN Goto(t, Fail("update_request", 404))
           ELSE IF request.donor_uid # me
           THEN Goto(t, Fail("update_request", 403))
           ELSE Goto(t, [pc |-> "update_request_update", op |-> "update_request",
                         me |-> me, request_id |-> request_id, status |-> status,
                         requester_uid |-> request.requester_uid,
                         food_id |-> request.food_id,
                         request_status |-> request.status])
    /\ UNCHANGED <<mongo, users, food_items, requests, nextUid, nextFid, nextRid,
                   now, tokens>>

\* the donor check left out: any authenticated user may set the status
update_request_find_any_user(t, me, request_id, status) ==
    /\ frame[t] = Idle
    /\ LET request == FindById(requests, ObjectId(request_id))
       IN  IF ~IsObjectId(request_id)
           THEN Goto(t, Fail("update_request", 500))
           ELSE IF request = None
           THEN Goto(t, Fail("update_request", 404))
           ELSE IF status \notin ValidStatus
           THEN Goto(t, Fail("update_request", 400))
           ELSE Goto(t, [pc |-> "update_request_update", op |-> "update_request",
                         me |-> me, request_id |-> request_id, status |-> status,
                         requester_uid |-> request.requester_uid,
                         food_id |-> request.food_id,
                         request_status |-> request.status])
    /\ UNCHANGED <<mongo, users, food_items, requests, nextUid, nextFid, nextRid,
                   now, tokens>>

\* main.py 570-578: ObjectId(request_id), existence, donor check, status check
update_request_find(t, me, request_id, status) ==
    /\ frame[t] = Idle
    /\ LET request == FindById(requests, ObjectId(request_id))
       IN  IF ~IsObjectId(request_id)
           THEN Goto(t, Fail("update_request", 500))
           ELSE IF request = None
           THEN Goto(t, Fail("update_request", 404))
           ELSE IF request.donor_uid # me
           THEN Goto(t, Fail("update_request", 403))
           ELSE IF status \notin ValidStatus
           THEN Goto(t, Fail("update_request", 400))
           ELSE Goto(t, [pc |-> "update_request_update", op |-> "update_request",
                         me |-> me, request_id |-> request_id, status |-> status,
                         requester_uid |-> request.requester_uid,
                         food_id |-> request.food_id,
                         request_status |-> request.status])
    /\ UNCHANGED <<mongo, users, food_items, requests, nextUid, nextFid, nextRid,
                   now, tokens>>

\* the notification's status word stored instead of the given status
update_request_update_status_msg(t) ==
    /\ frame[t].pc = "update_request_update"
    /\ requests' = UpdateOne(requests, ObjectId(frame[t].request_id),
                             [status |-> StatusMsg(frame[t].status),
                              updated_at |-> <<now>>])
    /\ Goto(t, [frame[t] EXCEPT !.pc = "update_request_fetch"])
    /\ UNCHANGED <<mongo, users, food_items, nextUid, nextFid, nextRid, now, tokens>>

\* main.py 580-583: $set status and updated_at
update_request_update(t) ==
    /\ frame[t].pc = "update_request_update"
    /\ requests' = UpdateOne(requests, ObjectId(frame[t].request_id),
                             [status |-> frame[t].status, updated_at |-> <<now>>])
    /\ Goto(t, [frame[t] EXCEPT !.pc = "update_request_fetch"])
    /\ UNCHANGED <<mongo, users, food_items, nextUid, nextFid, nextRid, now, tokens>>

\* main.py 585: read the request back (None when it was deleted meanwhile)
update_request_fetch(t) ==
    /\ frame[t].pc = "update_request_fetch"
    /\ LET updated_request == FindById(requests, ObjectId(frame[t].request_id)) IN
       Goto(t, [frame[t] EXCEPT !.pc = "update_request_requester"]
               @@ [updated_request |-> IF updated_request = None THEN None
                                       ELSE RequestResponse(updated_request)])
    /\ UNCHANGED <<mongo, users, food_items, requests, nextUid, nextFid, nextRid,
                   now, tokens>>

\* main.py 588-589: look the requester up; without a device token answer
update_request_requester(t) ==
    /\ frame[t].pc = "update_request_requester"
    /\ LET requester == FindById(users, ObjectId(frame[t].requester_uid)) IN
       IF requester # None /\ requester.fcm_token # NoValue
       THEN Goto(t, [frame[t] EXCEPT !.pc = "update_request_food"]
                    @@ [fcm_token |-> requester.fcm_token])
       ELSE Goto(t, UpdateRequestAnswer(frame[t], NoNotification))
    /\ UNCHANGED <<mongo, users, food_items, requests, nextUid, nextFid, nextRid,
                   now, tokens>>

\* main.py 590-591: the title of the food item, or "food item"
update_request_food(t) ==
    /\ frame[t].pc = "update_request_food"
    /\ LET food == FindById(food_items, ObjectId(frame[t].food_id)) IN
       Goto(t, [frame[t] EXCEPT !.pc = "update_request_notify"]
               @@ [food_title |-> IF food # None THEN food.title ELSE "food item"])
    /\ UNCHANGED <<mongo, users, food_items, requests, nextUid, nextFid, nextRid,
                   now, tokens>>

\* main.py 593-602: send_notification returns and the handler answers, or it
\* raises and the exception leaves the handler (500)
update_request_notify(t) ==
    /\ frame[t].pc = "update_request_notify"
    /\ \/ Goto(t, UpdateRequestAnswer(frame[t],
                    Notification(frame[t].fcm_token,
                                 <<"Request", StatusMsg(frame[t].status)>>,
                                 <<frame[t].food_title, StatusMsg(frame[t].status)>>)))
       \/ Goto(t, Respond("update_request", 500,
                    [me |-> frame[t].me, request_id |-> frame[t].request_id,
                     status |-> frame[t].status, notification |-> NoNotification]))
    /\ UNCHANGED <<mongo, users, food_items, requests, nextUid, nextFid, nextRid,
                   now, tokens>>

update_request(t, callers, request_ids, statuses) ==
    \/ \E me \in callers, request_id \in request_ids, status \in statuses :
          update_request_find(t, me, request_id, status)
    \/ update_request_update(t)
    \/ update_request_fetch(t)
    \/ update_request_requester(t)
    \/ update_request_food(t)
    \/ update_request_notify(t)

\* ------------------------------------------------------------ delete_request
\* main.py 623-629: ObjectId(request_id), existence, requester or donor
delete_request_find(t, me, request_id) ==
    /\ frame[t] = Idle
    /\ LET request == FindById(requests, ObjectId(request_id))
       IN  IF ~IsObjectId(request_id)
           THEN Goto(t, Fail("delete_request", 500))
           ELSE IF request = None
           THEN Goto(t, Fail("delete_request", 404))
           ELSE IF request.requester_uid # me /\ request.donor_uid # me
           THEN Goto(t, Fail("delete_request", 403))
           ELSE Goto(t, [pc |-> "delete_request_delete", op |-> "delete_request",
                         me |-> me, request_id |-> request_id])
    /\ UNCHANGED <<mongo, users, food_items, requests, nextUid, nextFid, nextRid,
                   now, tokens>>

\* main.py 631-633: delete the request
delete_request_delete(t) ==
    /\ frame[t].pc = "delete_request_delete"
    /\ requests' = {r \in requests : r.id # ObjectId(frame[t].request_id)}
    /\ Goto(t, Respond("delete_request", 200,
                [me |-> frame[t].me, request_id |-> frame[t].request_id]))
    /\ UNCHANGED <<mongo, users, food_items, nextUid, nextFid, nextRid, now, tokens>>

delete_request(t, callers, request_ids) ==
    \/ \E me \in callers, request_id \in request_ids :
          delete_request_find(t, me, request_id)
    \/ delete_request_delete(t)

\* ---------------------------------------------------------- update_fcm_token
\* main.py 695-705: $set fcm_token and updated_at on the caller's record
update_fcm_token(t, me, fcm_token) ==
    /\ frame[t] = Idle
    /\ users' = UpdateOne(users, ObjectId(me),
                          [fcm_token |-> fcm_token, updated_at |-> now])
    /\ Goto(t, Respond("update_fcm_token", 200, [me |-> me]))
    /\ UNCHANGED <<mongo, food_items, requests, nextUid, nextFid, nextRid, now, tokens>>

\* the comparison of the two passwords made before the old one is verified
change_password_find_same_first(t, me, old_password, new_password) ==
    /\ frame[t] = Idle
    /\ LET user == FindById(users, ObjectId(me))
       IN  IF user = None
           THEN Goto(t, Fail("change_password", 404))
           ELSE IF old_password = new_password
           THEN Goto(t, Fail("change_password", 400))
           ELSE IF ~VerifyPassword(old_password, user.hashed_password)
           THEN Goto(t, Fail("change_password", 401))
           ELSE Goto(t, [pc |-> "change_password_update", op |-> "change_password",
                         me |-> me, old_password |-> old_password,
                         new_password |-> new_password,
                         hashed_password |-> GetPasswordHash(new_password)])
    /\ UNCHANGED <<mongo, users, food_items, requests, nextUid, nextFid, nextRid,
                   now, tokens>>

\* ----------------------------------------------------------- change_password
\* main.py 737-750: user lookup, old password, old # new, hash the new one
change_password_find(t, me, old_password, new_password) ==
    /\ frame[t] = Idle
    /\ LET user == FindById(users, ObjectId(me))
       IN  IF user = None
           THEN Goto(t, Fail("change_password", 404))
           ELSE IF ~VerifyPassword(old_password, user.hashed_password)
           THEN Goto(t, Fail("change_password", 401))
           ELSE IF old_password = new_password
           THEN Goto(t, Fail("change_password", 400))
           ELSE Goto(t, [pc |-> "change_password_update", op |-> "change_password",
                         me |-> me, old_password |-> old_password,
                         new_password |-> new_password,
                         hashed_password |-> GetPasswordHash(new_password)])
    /\ UNCHANGED <<mongo, users, food_items, requests, nextUid, nextFid, nextRid,
                   now, tokens>>

\* main.py 753-765: $set hashed_password and updated_at
change_password_update(t) ==
    /\ frame[t].pc = "change_password_update"
    /\ users' = UpdateOne(users, ObjectId(frame[t].me),
                          [hashed_password |-> frame[t].hashed_password,
                           updated_at |-> now])
    /\ Goto(t, Respond("change_password", 200,
                [me |-> frame[t].me, old_password |-> frame[t].old_password,
                 new_password |-> frame[t].new_password]))
    /\ UNCHANGED <<mongo, food_items, requests, nextUid, nextFid, nextRid, now, tokens>>

change_password(t, callers, passwords) ==
    \/ \E me \in callers, old_password \in passwords, new_password \in passwords :
          change_password_find(t, me, old_password, new_password)
    \/ change_password_update(t)

\* --------------------------------------------------------------- delete_user
\* what the store holds for a user: the quantities delete_user reports
Holdings(uid) ==
    [food_items |-> Cardinality({f \in food_items : f.donor_uid = uid}),
     requests_as_requester |-> Cardinality({r \in requests : r.requester_uid = uid}),
     requests_as_donor |-> Cardinality({r \in requests : r.donor_uid = uid})]

\* main.py 805-813: user lookup and password check.  `before` records the
\* caller's holdings at the call; the handler never reads it.
delete_user_find(t, me, password) ==
    /\ frame[t] = Idle
    /\ LET user == FindById(users, ObjectId(me))
       IN  IF user = None
           THEN Goto(t, Fail("delete_user", 404))
           ELSE IF ~VerifyPassword(password, user.hashed_password)
           THEN Goto(t, Fail("delete_user", 401))
           ELSE Goto(t, [pc |-> "delete_user_food_items", op |-> "delete_user",
                         me |-> me, before |-> Holdings(me)])
    /\ UNCHANGED <<mongo, users, food_items, requests, nextUid, nextFid, nextRid,
                   now, tokens>>

\* main.py 816: delete_many on food_items by donor_uid
delete_user_food_items(t) ==
    /\ frame[t].pc = "delete_user_food_items"
    /\ LET hit == {f \in food_items : f.donor_uid = frame[t].me} IN
       /\ food_items' = food_items \ hit
       /\ Goto(t, [frame[t] EXCEPT !.pc = "delete_user_requester"]
                  @@ [food_items_deleted |-> Cardinality(hit)])
    /\ UNCHANGED <<mongo, users, requests, nextUid, nextFid, nextRid, now, tokens>>

\* main.py 819: delete_many on requests by requester_uid
delete_user_requester(t) ==
    /\ frame[t].pc = "delete_user_requester"
    /\ LET hit == {r \in requests : r.requester_uid = frame[t].me} IN
       /\ requests' = requests \ hit
       /\ Goto(t, [frame[t] EXCEPT !.pc = "delete_user_donor"]
                  @@ [requests_as_requester_deleted |-> Cardinality(hit)])
    /\ UNCHANGED <<mongo, users, food_items, nextUid, nextFid, nextRid, now, tokens>>

\* the donor-side delete reports its count but removes nothing
delete_user_donor_skipped(t) ==
    /\ frame[t].pc = "delete_user_donor"
    /\ Goto(t, [frame[t] EXCEPT !.pc = "delete_user_account"]
               @@ [requests_as_donor_deleted |->
                     Cardinality({r \in requests : r.donor_uid = frame[t].me})])
    /\ UNCHANGED <<mongo, users, food_items, requests, nextUid, nextFid, nextRid,
                   now, tokens>>

\* main.py 822: delete_many on requests by donor_uid
delete_user_donor(t) ==
    /\ frame[t].pc = "delete_user_donor"
    /\ LET hit == {r \in requests : r.donor_uid = frame[t].me} IN
       /\ requests' = requests \ hit
       /\ Goto(t, [frame[t] EXCEPT !.pc = "delete_user_account"]
                  @@ [requests_as_donor_deleted |-> Cardinality(hit)])
    /\ UNCHANGED <<mongo, users, food_items, nextUid, nextFid, nextRid, now, tokens>>

\* main.py 825-841: delete the user record, answer with the three counts
delete_user_account(t) ==
    /\ frame[t].pc = "delete_user_account"
    /\ users' = {u \in users : u.id # ObjectId(frame[t].me)}
    /\ Goto(t, Respond("delete_user", 200,
                [me |-> frame[t].me, before |-> frame[t].before,
                 deleted_items |->
                    [food_items |-> frame[t].food_items_deleted,
                     requests_as_requester |-> frame[t].requests_as_requester_deleted,
                     requests_as_donor |-> frame[t].requests_as_donor_deleted]]))
    /\ UNCHANGED <<mongo, food_items, requests, nextUid, nextFid, nextRid, now, tokens>>

\* a failed store call is followed by the removal of the user record
delete_user_raise_and_drop(t) ==
    /\ frame[t].pc \in {"delete_user_food_items", "delete_user_requester",
                        "delete_user_donor", "delete_user_account"}
    /\ users' = {u \in users : u.id # ObjectId(frame[t].me)}
    /\ Goto(t, Respond("delete_user", 500,
                [me |-> frame[t].me, before |-> frame[t].before,
                 failed_at |-> frame[t].pc]))
    /\ UNCHANGED <<mongo, food_items, requests, nextUid, nextFid, nextRid,
                   now, tokens>>

\* main.py 816-825, 845-847: one of the four store calls raises; the except
\* clause answers 500 and nothing is written by the failed call or after it
delete_user_raise(t) ==
    /\ frame[t].pc \in {"delete_user_food_items", "delete_user_requester",
                        "delete_user_donor", "delete_user_account"}
    /\ Goto(t, Respond("delete_user", 500,
                [me |-> frame[t].me, before |-> frame[t].before,
                 failed_at |-> frame[t].pc]))
    /\ UNCHANGED <<mongo, users, food_items, requests, nextUid, nextFid, nextRid,
                   now, tokens>>

delete_user(t, callers, passwords) ==
    \/ \E me \in callers, password \in passwords : delete_user_find(t, me, password)
    \/ delete_user_food_items(t)
    \/ delete_user_requester(t)
    \/ delete_user_donor(t)
    \/ delete_user_account(t)

\* ------------------------------------------------------------ specifications
\* path parameters: the string of every ObjectId of the collection, and one
\* string that is no ObjectId
PathIds(max) == {Str(n) : n \in 1..max} \cup {BadId}

\* FoodItemUpdate bodies: each field present or None
FoodItemUpdate(titles, quantities) ==
    [title : titles \cup {NoValue}, quantity : quantities \cup {NoValue}]

\* the bodies of Spec: a title or nothing
Patches == FoodItemUpdate(Titles, {})

\* RequestUpdate.status is any string
Statuses == ValidStatus \cup {"done"}

\* the food / request marketplace, one request at a time: every handler that
\* writes food_items or requests, with one registration password and one title
Next ==
    \/ Return("t1")
    \/ register("t1", Emails, {"pw1"})
    \/ \E me \in tokens, title \in Titles, quantity \in Quantities :
          create_food_item("t1", me, title, quantity)
    \/ update_food_item("t1", tokens, PathIds(MaxFood), Patches)
    \/ delete_food_item("t1", tokens, PathIds(MaxFood))
    \/ create_request("t1", tokens, PathIds(MaxFood))
    \/ \E me \in tokens : get_requests("t1", me)
    \/ update_request("t1", tokens, PathIds(MaxReq), Statuses)
    \/ delete_request("t1", tokens, PathIds(MaxReq))
    \/ \E me \in tokens, fcm_token \in FcmTokens : update_fcm_token("t1", me, fcm_token)
    \/ delete_user("t1", tokens, Passwords)

Spec == Init /\ [][Next]_vars

\* the account lifecycle, one request at a time, with the clock running
NextAccount ==
    \/ Tick
    \/ Return("t1")
    \/ register("t1", Emails, Passwords)
    \/ login("t1", Emails, Passwords)
    \/ \E me \in tokens, fcm_token \in FcmTokens : update_fcm_token("t1", me, fcm_token)
    \/ change_password("t1", tokens, Passwords)
    \/ delete_user("t1", tokens, Passwords)

SpecAccount == Init /\ [][NextAccount]_vars

\* two requests in flight, interleaved at every await: the handlers that
\* insert or delete users, food items and requests
NextRace ==
    \E t \in Tasks :
        \/ Return(t)
        \/ register(t, {"a@x"}, {"pw1"})
        \/ \E me \in tokens, title \in Titles, quantity \in Quantities :
              create_food_item(t, me, title, quantity)
        \/ delete_food_item(t, tokens, PathIds(MaxFood))
        \/ create_request(t, tokens, PathIds(MaxFood))
        \/ \E me \in tokens, fcm_token \in FcmTokens : update_fcm_token(t, me, fcm_token)
        \/ delete_user(t, tokens, {"pw1"})

SpecRace == Init /\ [][NextRace]_vars

\* ------------------------------------------------------------ token protocol
\* auth.py 19-21
SECRET_KEY == "your-secret-key"
ALGORITHM == "HS256"
ACCESS_TOKEN_EXPIRE_MINUTES == 10080

\* an optional value: <<>> for None / an absent key, <<v>> for v
Get(dict, key) == IF key \in DOMAIN dict THEN <<dict[key]>> ELSE <<>>

\* the dict with the keys whose option is given
Dict(options) ==
    [k \in {key \in DOMAIN options : options[key] # <<>>} |-> options[k][1]]

\* dict.update({key: value})
Update(dict, key, value) ==
    [k \in DOMAIN dict \cup {key} |-> IF k = key THEN value ELSE dict[k]]

\* the HS256 signature of a payload under a key
Sign(payload, key) == <<ALGORITHM, key, payload>>

\* jwt.encode(to_encode, SECRET_KEY, algorithm=ALGORITHM)
JwtEncode(payload, key) == [payload |-> payload, signature |-> Sign(payload, key)]

\* auth.py 71-81: expires_delta is tested for truth, so timedelta(0) counts
\* as not given; utcnow and the durations are in minutes
create_access_token(data, expires_delta, utcnow) ==
    LET expire == IF expires_delta # <<>> /\ expires_delta[1] # 0
                  THEN utcnow + expires_delta[1]
                  ELSE utcnow + ACCESS_TOKEN_EXPIRE_MINUTES
    IN  JwtEncode(Update(data, "exp", expire), SECRET_KEY)

\* jwt.decode(token, SECRET_KEY, algorithms=[ALGORITHM]): the payload, or
\* JWTError for a token that does not parse, whose signature does not match
\* or whose exp lies in the past
JWTError == [error |-> "JWTError"]
JwtDecode(token, key, utcnow) ==
    IF DOMAIN token # {"payload", "signature"} THEN JWTError
    ELSE IF token.signature # Sign(token.payload, key) THEN JWTError
    ELSE IF "exp" \in DOMAIN token.payload /\ token.payload["exp"] < utcnow
    THEN JWTError
    ELSE [error |-> "none", payload |-> token.payload]

\* the HTTPException(401) of verify_token
Unauthorized == [code |-> 401]

\* the sub claim not looked at
verify_token_sub_unchecked(token, utcnow) ==
    LET decoded == JwtDecode(token, SECRET_KEY, utcnow) IN
    IF decoded.error # "none" THEN Unauthorized
    ELSE [code |-> 200, uid |-> Get(decoded.payload, "sub"),
          email |-> Get(decoded.payload, "email"),
          name |-> Get(decoded.payload, "name")]

\* auth.py 84-101
verify_token(token, utcnow) ==
    LET decoded == JwtDecode(token, SECRET_KEY, utcnow) IN
    IF decoded.error # "none" THEN Unauthorized
    ELSE IF "sub" \notin DOMAIN decoded.payload THEN Unauthorized
    ELSE [code |-> 200, uid |-> Get(decoded.payload, "sub"),
          email |-> Get(decoded.payload, "email"),
          name |-> Get(decoded.payload, "name")]

\* what reaches the server in place of the token a client was given
Altered(token, how) ==
    CASE how = "signature" -> [token EXCEPT !.signature = Sign(token.payload, "forged")]
      [] how = "payload" ->
            [token EXCEPT !.payload = Update(token.payload, "sub", Str(MaxUsers + 1))]
      [] how = "malformed" -> [garbage |-> TRUE]

\* a token is issued for a claim set and held by the client
issue_token(t, data, expires_delta) ==
    /\ frame[t] = Idle
    /\ Goto(t, [pc |-> "token_held", op |-> "token", data |-> data,
                expires_delta |-> expires_delta, issued_at |-> now,
                altered |-> "no",
                token |-> create_access_token(data, expires_delta, now)])
    /\ UNCHANGED <<mongo, users, food_items, requests, nextUid, nextFid, nextRid,
                   now, tokens>>

\* the token is altered on its way
alter_token(t, how) ==
    /\ frame[t].pc = "token_held"
    /\ frame[t].altered = "no"
    /\ Goto(t, [frame[t] EXCEPT !.altered = how,
                                !.token = Altered(frame[t].token, how)])
    /\ UNCHANGED <<mongo, users, food_items, requests, nextUid, nextFid, nextRid,
                   now, tokens>>

\* auth.py 104-106: the bearer token of a request is verified
get_current_user(t) ==
    /\ frame[t].pc = "token_held"
    /\ Goto(t, Respond("get_current_user", verify_token(frame[t].token, now).code,
                [data |-> frame[t].data, altered |-> frame[t].altered,
                 token |-> frame[t].token, verified_at |-> now,
                 current_user |-> verify_token(frame[t].token, now)]))
    /\ UNCHANGED <<mongo, users, food_items, requests, nextUid, nextFid, nextRid,
                   now, tokens>>

\* the claim sets and durations tokens are issued for
SubClaims == {<<>>} \cup {<<Str(n)>> : n \in 1..MaxUsers}
ClaimSets ==
    {Dict(o) : o \in [sub : SubClaims, email : {<<>>, <<"a@x">>},
                      name : {<<>>, <<"ann">>}, exp : {<<>>, <<0>>}]}
Durations == {<<>>, <<-1>>, <<0>>, <<1>>}

\* tokens issued, carried and verified while the clock runs
NextToken ==
    \/ Tick
    \/ Return("t1")
    \/ \E data \in ClaimSets, expires_delta \in Durations :
          issue_token("t1", data, expires_delta)
    \/ \E how \in {"signature", "payload", "malformed"} : alter_token("t1", how)
    \/ get_current_user("t1")

SpecToken == Init /\ [][NextToken]_vars

\* the connection lifecycle around the account handlers
NextDb ==
    \/ startup_event("t1")
    \/ get_db("t1")
    \/ shutdown_event("t1")
    \/ Return("t1")
    \/ Tick
    \/ Serving /\ register("t1", Emails, Passwords)
    \/ Serving /\ login("t1", Emails, Passwords)

SpecDb == InitDb /\ [][NextDb]_vars

\* account deletion over a store whose calls can fail, one request at a
\* time
NextDelete ==
    \/ Return("t1")
    \/ register("t1", Emails, {"pw1"})
    \/ \E me \in tokens, title \in Titles, quantity \in Quantities :
          create_food_item("t1", me, title, quantity)
    \/ create_request("t1", tokens, PathIds(MaxFood))
    \/ delete_user("t1", tokens, Passwords)
    \/ delete_user_raise("t1")

SpecDelete == Init /\ [][NextDelete]_vars

\* the listing fields a donor can change an item to
MoreTitles == {"soup", "rice"}
MoreQuantities == {"1kg", "2kg"}

\* one donor's listings, one request at a time, with the clock running
NextFood ==
    \/ Tick
    \/ Return("t1")
    \/ register("t1", {"a@x"}, {"pw1"})
    \/ \E me \in tokens, title \in Titles, quantity \in Quantities :
          create_food_item("t1", me, title, quantity)
    \/ update_food_item("t1", tokens, PathIds(MaxFood),
                        FoodItemUpdate(MoreTitles, MoreQuantities))

SpecFood == Init /\ [][NextFood]_vars

\* ===================================================================== claims
\* the response of the request being served under Spec
Response == frame["t1"]

\* the handler of Spec answered op with code
Answered(op, code) ==
    Response.pc = "done" /\ Response.op = op /\ Response.code = code

\* every uid string a token can carry
Uids == {Str(n) : n \in 1..MaxUsers}

C2_DeleteUserCounts ==
    Answered("delete_user", 200) =>
        /\ FindById(users, ObjectId(Response.me)) = None
        /\ \A f \in food_items : f.donor_uid # Response.me
        /\ \A r \in requests :
              r.requester_uid # Response.me /\ r.donor_uid # Response.me
        /\ Response.deleted_items = Response.before

\* C2 witness: the deleted account owned an item, had made a request and had
\* received one
C2_Witness ==
    /\ Answered("delete_user", 200)
    /\ Response.deleted_items =
          [food_items |-> 1, requests_as_requester |-> 1, requests_as_donor |-> 1]

\* the string of every ObjectId a path can name
ValidIds(max) == PathIds(max) \ {BadId}

\* C3: for every existing food item, update_food_item and delete_food_item by
\* a user who is not its donor answer 403 and change no collection; for a
\* well-formed id of no item they answer 404 (whoever asks); issued by the
\* donor they proceed to the write and answer 200 (an update needs a
\* non-empty body, else 400).
C3_OwnershipEnforced ==
    [][ /\ \A me \in tokens, food_id \in ValidIds(MaxFood) :
            LET food == FindById(food_items, ObjectId(food_id))
                Gate(op, body_empty, proceed) ==
                    IF food = None
                    THEN frame'["t1"] = Fail(op, 404) /\ db' = db
                    ELSE IF food.donor_uid # me
                    THEN frame'["t1"] = Fail(op, 403) /\ db' = db
                    ELSE IF body_empty
                    THEN frame'["t1"] = Fail(op, 400) /\ db' = db
                    ELSE frame'["t1"].pc = proceed
            IN  /\ \A patch \in Patches :
                      update_food_item_find("t1", me, food_id, patch) =>
                          Gate("update_food_item", patch.title = NoValue,
                               "update_food_item_update")
                /\ delete_food_item_find("t1", me, food_id) =>
                      Gate("delete_food_item", FALSE, "delete_food_item_delete")
        /\ update_food_item_fetch("t1") => frame'["t1"].code = 200
        /\ delete_food_item_cascade("t1") =>
              /\ frame'["t1"].code = 200
              /\ FindById(food_items, ObjectId(frame["t1"].food_id)) = None
      ]_vars

\* C3 witness: a delete by a user who is not the donor was refused while the
\* item and a request for it are in the store
C3_Witness ==
    /\ Response = Fail("delete_food_item", 403)
    /\ \E f \in food_items : \E r \in requests : r.food_id = Str(f.id)

\* C4: create_request by the donor of the item answers 400, inserts nothing
\* and ends before any notification is sent; and in every reachable state,
\* under every interleaving of two handlers, every stored request has a
\* requester different from its donor.
C4_NoSelfRequest ==
    /\ [](\A r \in requests : r.requester_uid # r.donor_uid)
    /\ [][ \A t \in Tasks, me \in tokens, food_id \in ValidIds(MaxFood) :
             LET food == FindById(food_items, ObjectId(food_id)) IN
             (food # None /\ food.donor_uid = me /\ create_request_find(t, me, food_id))
                 => /\ frame'[t] = Fail("create_request", 400)
                    /\ requests' = requests /\ nextRid' = nextRid
         ]_vars

\* C4 witness: a donor's request for the own item was refused while another
\* user's request is stored
C4_Witness ==
    /\ \E t \in Tasks : frame[t] = Fail("create_request", 400)
    /\ requests # {}

\* C5: register with an email that a user record already carries answers 400,
\* inserts no record, hands out no token (not at the response either) and
\* leaves every user record, password hash included, as it was.
C5_DuplicateEmailRejected ==
    [][ /\ \A email \in Emails, password \in Passwords :
             (UsersByEmail(email) # {} /\ register_find("t1", email, password))
                 => /\ frame'["t1"] = Fail("register", 400)
                    /\ users' = users /\ nextUid' = nextUid /\ tokens' = tokens
        /\ (frame["t1"] = Fail("register", 400) /\ Return("t1"))
                 => users' = users /\ tokens' = tokens
      ]_vars

\* C5 witness: a registration was refused for the email of a record whose
\* password has been changed since
C5_Witness ==
    /\ Response = Fail("register", 400)
    /\ \E u \in users : u.updated_at > u.created_at

\* C6: two registrations of one email served concurrently can both pass the
\* existence check before either inserts: whenever a registration inserts
\* while a record of its email is stored, that record was inserted after the
\* registration's own check, so a duplicate comes only from registrations
\* that overlap between check and insert.
C6_DuplicateEmailOnlyByOverlap ==
    [][ \A t \in Tasks :
          register_insert(t) =>
              \A u \in users :
                  u.email = frame[t].email => u.id >= frame[t].checked
      ]_vars

\* C6 witness: two distinct user records carry the same email
C6_Witness ==
    \E u1 \in users : \E u2 \in users : u1.id # u2.id /\ u1.email = u2.email

\* the stored request with this id in the old and in the new state
SameRequest(r, r2) == r2.id = r.id

\* C7: the status and update timestamp of a stored request change only in
\* the write of an update_request whose caller is the request's donor;
\* update_request by any other user, the requester included, answers 403 and
\* leaves the requests as they were.
C7_StatusOnlyByDonor ==
    [][ /\ \A r \in requests : \A r2 \in requests' :
              (SameRequest(r, r2) /\
                  (r2.status # r.status \/ r2.updated_at # r.updated_at))
              => /\ frame["t1"].pc = "update_request_update"
                 /\ frame["t1"].request_id = Str(r.id)
                 /\ frame["t1"].me = r.donor_uid
        /\ \A me \in tokens, request_id \in ValidIds(MaxReq), status \in Statuses :
              LET request == FindById(requests, ObjectId(request_id)) IN
              (request # None /\ request.donor_uid # me
                 /\ update_request_find("t1", me, request_id, status))
              => /\ frame'["t1"] = Fail("update_request", 403)
                 /\ requests' = requests
      ]_vars

\* C7 witness: an update_request was refused with 403 while a request whose
\* status the donor had set is stored
C7_Witness ==
    /\ Response = Fail("update_request", 403)
    /\ \E r \in requests : r.status = "accepted" /\ r.updated_at # <<>>

\* C8 as stated: every request is created pending, and a status changes only
\* from pending to accepted or from pending to rejected.
C8_OnlyForwardTransitions ==
    [][ /\ \A r2 \in requests' :
              (\A r \in requests : ~SameRequest(r, r2)) => r2.status = "pending"
        /\ \A r \in requests : \A r2 \in requests' :
              (SameRequest(r, r2) /\ r2.status # r.status)
              => r.status = "pending" /\ r2.status \in {"accepted", "rejected"}
      ]_vars

\* C8 amended: every request is created pending, and the write of
\* update_request stores whichever of accepted, rejected and pending the
\* donor gave, whatever the status was: any status can follow any status.
C8_AnyTransition ==
    [][ /\ \A r2 \in requests' :
              (\A r \in requests : ~SameRequest(r, r2)) => r2.status = "pending"
        /\ update_request_update("t1") =>
              /\ frame["t1"].status \in ValidStatus
              /\ \A r \in requests : \A r2 \in requests' :
                    SameRequest(r, r2) =>
                        r2.status = IF Str(r.id) = frame["t1"].request_id
                                    THEN frame["t1"].status ELSE r.status
      ]_vars

\* C8 witness: an accepted request was moved back to pending
C8_Witness ==
    /\ Answered("update_request", 200)
    /\ Response.request_status = "accepted"
    /\ Response.status = "pending"
    /\ \E r \in requests : Str(r.id) = Response.request_id /\ r.status = "pending"

\* C9 as stated: update_request notifies the requester only when the new
\* status is accepted or rejected, and the status word of the title and of
\* the body is the stored status.
C9_NotificationMatchesStatus ==
    (Answered("update_request", 200) /\ Response.notification.sent) =>
        /\ Response.status \in {"accepted", "rejected"}
        /\ Response.notification.title = <<"Request", Response.status>>
        /\ Response.notification.body[2] = Response.status
        /\ \A r \in requests :
              Str(r.id) = Response.request_id => r.status = Response.status

\* C10: the notification is sent after the write, and when it raises the
\* handler answers 500 while the inserted request (create_request) or the
\* new status (update_request) stays in the store.
C10_NotificationFailureKeepsWrite ==
    LET Stored(id) == {r \in requests : Str(r.id) = id}
        f == Response IN
    /\ (f.pc = "create_request_notify" \/
          (Answered("create_request", 500) /\ "id" \in DOMAIN f))
       => \E r \in Stored(f.id) :
              /\ r.status = "pending"
              /\ r.requester_uid = f.me /\ r.food_id = f.food_id
    /\ (f.pc = "update_request_notify" \/
          (Answered("update_request", 500) /\ "request_id" \in DOMAIN f))
       => \E r \in Stored(f.request_id) : r.status = f.status

\* C10 witness: creating a request answered 500 at the notification
C10_Witness ==
    /\ Answered("create_request", 500)
    /\ "id" \in DOMAIN Response

\* C11: the write of update_food_item sets, on the item named, exactly the
\* fields the body gives and the update timestamp; every other field of the
\* item (the other listing fields, donor_uid, created_at) and every other
\* item stay as they were; a body with no field answers 400 and no step of
\* the handler but the write changes food_items.
C11_SparsePatchFrame ==
    [][ /\ update_food_item_update("t1") =>
              LET body == frame["t1"].food_update
                  given == {k \in DOMAIN body : body[k] # NoValue}
                  Written(f, k) ==
                      IF Str(f.id) # frame["t1"].food_id THEN f[k]
                      ELSE IF k \in given THEN body[k]
                      ELSE IF k = "updated_at" THEN <<now>>
                      ELSE f[k]
              IN  /\ given # {}
                  /\ food_items' =
                        {[k \in DOMAIN f |-> Written(f, k)] : f \in food_items}
        /\ \A me \in tokens, food_id \in PathIds(MaxFood) :
              update_food_item_find("t1", me, food_id, [title |-> NoValue,
                                                       quantity |-> NoValue])
              => frame'["t1"].pc = "done" /\ food_items' = food_items
        /\ \A me \in tokens, food_id \in ValidIds(MaxFood) :
              LET food == FindById(food_items, ObjectId(food_id)) IN
              (food # None /\ food.donor_uid = me /\
                 update_food_item_find("t1", me, food_id, [title |-> NoValue,
                                                          quantity |-> NoValue]))
              => frame'["t1"] = Fail("update_food_item", 400)
        /\ (frame["t1"].pc # "update_food_item_update" /\
               frame["t1"].pc # "idle") => food_items' = food_items
      ]_vars

\* C11 witness: an update that gave only the quantity has answered; the
\* item keeps title and creation time, and another item is stored
C11_Witness ==
    /\ Answered("update_food_item", 200)
    /\ \E f \in food_items : \E g \in food_items :
          /\ Str(f.id) = Response.food_id /\ g.id # f.id
          /\ f.title = "rice" /\ f.quantity = "2kg"
          /\ f.created_at = 0 /\ f.updated_at = <<1>>

\* C12: change_password answers 404 for a missing user record, else 401 for
\* an old password that does not verify, else 400 for equal old and new
\* password, each with users unchanged; otherwise it replaces the stored
\* hash, and from then on login with the new password succeeds and login
\* with the old password answers 401.
C12_ChangePasswordOrder ==
    /\ [](Answered("change_password", 200) =>
            \A u \in users : Str(u.id) = Response.me =>
                /\ VerifyPassword(Response.new_password, u.hashed_password)
                /\ ~VerifyPassword(Response.old_password, u.hashed_password))
    /\ [][ /\ \A me \in tokens, old \in Passwords, new \in Passwords :
                change_password_find("t1", me, old, new) =>
                    /\ users' = users
                    /\ LET mine == {u \in users : Str(u.id) = me} IN
                       IF mine = {}
                       THEN frame'["t1"] = Fail("change_password", 404)
                       ELSE IF \A u \in mine : u.hashed_password # GetPasswordHash(old)
                       THEN frame'["t1"] = Fail("change_password", 401)
                       ELSE IF old = new
                       THEN frame'["t1"] = Fail("change_password", 400)
                       ELSE frame'["t1"].pc = "change_password_update"
           /\ \A email \in Emails, password \in Passwords :
                login_find("t1", email, password) =>
                    IF \E u \in users : /\ u.email = email
                                        /\ VerifyPassword(password, u.hashed_password)
                    THEN frame'["t1"].pc = "login_touch"
                    ELSE frame'["t1"] = Fail("login", 401)
         ]_vars

\* C12 witness: a change from pw1 to pw2 has answered 200 and the stored
\* hash is that of pw2
C12_Witness ==
    /\ Answered("change_password", 200)
    /\ Response.old_password = "pw1" /\ Response.new_password = "pw2"
    /\ \E u \in users :
          Str(u.id) = Response.me /\ u.hashed_password = GetPasswordHash("pw2")

\* C13: a token from create_access_token for a claim set with sub, verified
\* unaltered and not after its expiry, yields uid = sub and the email and
\* name of the claim set (absent when absent); verification answers 401 when
\* the signature or the payload was altered, the token does not parse, the
\* expiry lies in the past or the claim set has no sub.
C13_TokenRoundTrip ==
    Answered("get_current_user", Response.code) =>
        LET f == Response
            expired == f.altered = "no" /\ f.token.payload["exp"] < f.verified_at
        IN  IF f.altered # "no" \/ expired \/ "sub" \notin DOMAIN f.data
            THEN f.code = 401 /\ f.current_user = Unauthorized
            ELSE /\ f.code = 200
                 /\ f.current_user.uid = <<f.data["sub"]>>
                 /\ f.current_user.email = Get(f.data, "email")
                 /\ f.current_user.name = Get(f.data, "name")

\* C13 witness: a token with sub and email but no name was verified at its
\* expiry instant and accepted
C13_Witness ==
    /\ Answered("get_current_user", 200)
    /\ Response.current_user.uid = <<Str(2)>>
    /\ Response.current_user.email = <<"a@x">>
    /\ Response.current_user.name = <<>>
    /\ Response.token.payload["exp"] = Response.verified_at

\* C19 as stated: every token carries exp; with a duration d supplied it is
\* the issuance time plus d, with none supplied the issuance time plus the
\* default of 10080 minutes; an exp of the claim set is replaced.
C19_ExpiryIsIssuancePlusDuration ==
    (frame["t1"].pc = "token_held" /\ frame["t1"].altered = "no") =>
        LET f == frame["t1"] IN
        /\ "exp" \in DOMAIN f.token.payload
        /\ f.token.payload["exp"] =
              IF f.expires_delta # <<>>
              THEN f.issued_at + f.expires_delta[1]
              ELSE f.issued_at + ACCESS_TOKEN_EXPIRE_MINUTES

\* C14: update_food_item, delete_food_item, create_request, update_request
\* and delete_request given a path id that is no ObjectId string end at once
\* with the error of the ObjectId constructor (an unhandled exception, 500),
\* whoever calls and whatever the body, and leave the three collections
\* unchanged.
C14_MalformedIdRejected ==
    [][ \A me \in tokens :
          LET Rejected(op) == frame'["t1"] = Fail(op, 500) /\ db' = db IN
          /\ \A patch \in Patches :
                update_food_item_find("t1", me, BadId, patch)
                    => Rejected("update_food_item")
          /\ delete_food_item_find("t1", me, BadId) => Rejected("delete_food_item")
          /\ create_request_find("t1", me, BadId) => Rejected("create_request")
          /\ \A status \in Statuses :
                update_request_find("t1", me, BadId, status)
                    => Rejected("update_request")
          /\ delete_request_find("t1", me, BadId) => Rejected("delete_request")
      ]_vars

\* C14 witness: delete_request with a malformed id was rejected while a
\* request is stored
C14_Witness ==
    /\ Response = Fail("delete_request", 500)
    /\ requests # {} /\ food_items # {}

\* C15 as stated: after shutdown the module-level client and database are
\* both unset, and a get_db never hands out the database of a closed client.
C15_ShutdownClearsState ==
    /\ Answered("shutdown_event", 200) =>
          mongo.client = <<>> /\ mongo.database = <<>>
    /\ Answered("get_db", 200) =>
          \A n \in mongo.closed : Response.database # <<n>>

\* C16: while no shutdown has run, whatever the sequence of connect_to_mongo
\* and get_db calls, at most one client has been made, the database is set
\* whenever the client is, and every get_db returns the database of that
\* one client.
C16_LazyIdempotentConnect ==
    mongo.closed = {} =>
        /\ mongo.created <= 1
        /\ mongo.client # <<>> => mongo.database = mongo.client
        /\ mongo.database # <<>> => mongo.client = mongo.database
        /\ Answered("get_db", 200) =>
              Response.database = <<1>> /\ mongo.database = <<1>>

\* C16 witness: a get_db before any startup found no database, made the
\* one client and returned its database
C16_Witness ==
    /\ Answered("get_db", 200)
    /\ Response.lazy
    /\ mongo.created = 1 /\ mongo.closed = {}

\* C17: delete_user deletes the caller's food items, then the requests the
\* caller made, then the requests the caller received, then the user record;
\* it deletes nothing when it answers 404 or 401; and when a store call
\* fails, the caller gets 500, nothing later is deleted and the user record
\* is still there, as it is at every point before the last delete.
C17_DeleteUserOrder ==
    /\ [](LET f == Response
              Stage(n) ==
                  [food_items |-> IF n >= 1 THEN 0 ELSE f.before.food_items,
                   requests_as_requester |->
                       IF n >= 2 THEN 0 ELSE f.before.requests_as_requester,
                   requests_as_donor |->
                       IF n >= 3 THEN 0 ELSE f.before.requests_as_donor]
              Reached(pc) ==
                  CASE pc = "delete_user_food_items" -> 0
                    [] pc = "delete_user_requester" -> 1
                    [] pc = "delete_user_donor" -> 2
                    [] pc = "delete_user_account" -> 3
          IN  /\ (f.pc \in {"delete_user_food_items", "delete_user_requester",
                            "delete_user_donor", "delete_user_account"})
                 => /\ Holdings(f.me) = Stage(Reached(f.pc))
                    /\ FindById(users, ObjectId(f.me)) # None
              /\ Answered("delete_user", 500)
                 => /\ Holdings(f.me) = Stage(Reached(f.failed_at))
                    /\ FindById(users, ObjectId(f.me)) # None)
    /\ [][ /\ \A me \in tokens, password \in Passwords :
                delete_user_find("t1", me, password) =>
                    /\ db' = db
                    /\ LET mine == {u \in users : Str(u.id) = me} IN
                       IF mine = {}
                       THEN frame'["t1"] = Fail("delete_user", 404)
                       ELSE IF \A u \in mine : ~VerifyPassword(password, u.hashed_password)
                       THEN frame'["t1"] = Fail("delete_user", 401)
                       ELSE frame'["t1"].pc = "delete_user_food_items"
           /\ delete_user_raise("t1") => db' = db
         ]_vars

\* C17 witness: the third delete failed for a user who had an item, a request
\* made and a request received; the received request and the user remain
C17_Witness ==
    /\ Answered("delete_user", 500)
    /\ Response.failed_at = "delete_user_donor"
    /\ Response.before =
          [food_items |-> 1, requests_as_requester |-> 1, requests_as_donor |-> 1]
    /\ \E r \in requests : r.donor_uid = Response.me

\* C18: in every reachable state every stored request has status pending,
\* accepted or rejected; update_request with any other status never gets to
\* the write: it ends at once with requests unchanged, with 400 when the
\* caller is the donor of the request named.
C18_StatusDomain ==
    /\ [](\A r \in requests : r.status \in {"pending", "accepted", "rejected"})
    /\ [][ \A me \in tokens, request_id \in PathIds(MaxReq),
              status \in Statuses \ {"pending", "accepted", "rejected"} :
              update_request_find("t1", me, request_id, status) =>
                  /\ frame'["t1"].pc = "done"
                  /\ requests' = requests
                  /\ (\E r \in requests :
                         Str(r.id) = request_id /\ r.donor_uid = me)
                     => frame'["t1"] = Fail("update_request", 400)
         ]_vars

\* C18 witness: the donor of an accepted request was refused a status that
\* is none of the three
C18_Witness ==
    /\ Response = Fail("update_request", 400)
    /\ \E r \in requests : r.status = "accepted"

\* C20 as stated: whenever no handler is in flight, under every interleaving
\* of two handlers, the food_id of every stored request names a stored food
\* item.
C20_RequestsNameStoredItems ==
    (\A t \in Tasks : frame[t] = Idle) =>
        \A r \in requests : FindById(food_items, ObjectId(r.food_id)) # None

\* C21 as stated: once delete_user has succeeded for a user (a token was
\* issued to the user and the user record is gone), in every later state no
\* food item has that user as donor_uid and no request has that user as
\* requester_uid or donor_uid.
C21_DeletedUserOwnsNothing ==
    \A me \in tokens :
        FindById(users, ObjectId(me)) = None =>
            /\ \A f \in food_items : f.donor_uid # me
            /\ \A r \in requests : r.requester_uid # me /\ r.donor_uid # me

\* C22: in every reachable state every stored request whose food item is
\* stored has the donor_uid of that item; and no step changes the donor_uid
\* of a food item or of a request that stays in the store.
C22_RequestDonorIsItemDonor ==
    /\ [](\A r \in requests :
            LET food == FindById(food_items, ObjectId(r.food_id)) IN
            food # None => r.donor_uid = food.donor_uid)
    /\ [][ /\ \A f \in food_items, f2 \in food_items' :
                f2.id = f.id => f2.donor_uid = f.donor_uid
           /\ \A r \in requests, r2 \in requests' :
                SameRequest(r, r2) => r2.donor_uid = r.donor_uid
         ]_vars

\* C22 witness: the donor has renamed an item (update_food_item answered 200)
\* on which a request was accepted earlier (update_request has written it);
\* the request still carries the item's donor
C22_Witness ==
    /\ Answered("update_food_item", 200)
    /\ \E r \in requests :
          /\ r.food_id = Response.food_id
          /\ r.status = "accepted"
          /\ r.donor_uid = Response.me

=============================================================================
